---- MODULE Spec2Model ----
(***************************************************************************)
(* Hindsight Economics, game page (frontend).                              *)
(*                                                                         *)
(* The model covers the Home page component and the three form components  *)
(* it renders: PredictionForm (four linked probabilities), AllocationSliders*)
(* (four portfolio weights, slider and preset variants) and RationaleInput. *)
(*                                                                         *)
(* Numbers.  Allocation weights are the integers the range inputs deliver. *)
(* Probabilities are IEEE-754 doubles.  The doubles the page can hold are  *)
(* the literals of the default vector, c/100 for a slider position c in    *)
(* 50..100, and 1 - x for such x.  A double x of that set lies within one  *)
(* rounding step of h/100 for a single h in 0..100 and is encoded as the   *)
(* integer 3*h + d, where d in {-1, 0, 1} is the sign of x - fl(h/100)     *)
(* (fl = the double nearest to).  The encoding preserves <, so Math.min    *)
(* and Math.max are min and max of the codes, and 1 - x is OneMinus.       *)
(***************************************************************************)
EXTENDS Integers, Sequences, FiniteSets, TLC

VARIABLES
    gameState,    \* Home: 'loading' | 'playing' | 'submitting' | 'reveal'
    scenario,     \* Home: ScenarioHistory | null (its scenario_id, 0 = null)
    error,        \* Home: string | null
    predictions,  \* Home: Predictions
    allocation,   \* Home: Allocation
    rationale,    \* Home: string, held as its length
    loadPc,       \* loadNewScenario: which await it is suspended at
    inflight,     \* the GameCreateInputs of the pending api.createGame calls, oldest first
    location,     \* window.location.href: "/" or "/reveal"
    lastOp,       \* the handler that ran last, with its arguments
    prevPredictions,  \* predictions as the last updatePrediction call found them
    prevAllocation,   \* allocation as the last allocation handler found it
    edits         \* how many form edits the user has made, counted up to MaxEdits

vars == <<gameState, scenario, error, predictions, allocation, rationale,
          loadPc, inflight, location, lastOp, prevPredictions, prevAllocation, edits>>

\* ------------------------------------------------------------------ bounds

\* Slider positions tried on a prediction row: 50 + k*50/ProbStops, k = 0..ProbStops.
ProbStops == 1

\* Slider positions tried on an allocation row: k*100/AllocStops, k = 0..AllocStops.
AllocStops == 3

\* Form edits per visit of the full page, where the three forms are edited together.
MaxEdits == 2

\* Scenario ids the backend may return: 1..MaxScenario.
MaxScenario == 1

\* ------------------------------------------------------ program constants

\* handleSubmit: rationale.length > 500 is rejected.
RationaleLimit == 500

\* RationaleInput: maxLength = 500, and the textarea accepts maxLength + 50.
RationaleMaxLength == 500

RationaleOverflow == 50

\* ------------------------------------------------------------ arithmetic

Min(a, b) == IF a <= b THEN a ELSE b

Max(a, b) == IF a >= b THEN a ELSE b

\* ------------------------------------------------- doubles of the page

\* Dev[c - 49], c in 50..100: the sign of (1 - fl(c/100)) - fl((100 - c)/100) in
\* IEEE-754 double arithmetic, e.g. 1 - 0.7 = 0.30000000000000004 > 0.3.
Dev ==
    << 0,  0,  0,  0, -1, -1, -1,  1,  1,  1,
       0,  0,  0,  0,  0,  0, -1, -1, -1,  1,
       1,  1,  0,  0,  0,  0,  0, -1, -1, -1,
      -1, -1,  1,  1,  1,  1,  0,  0,  0, -1,
      -1, -1, -1, -1,  1,  1,  1,  1,  1,  1,
       0 >>

\* The double nearest to h/100: a literal such as 0.3, or Number(e.target.value) / 100.
Fl(h) == 3 * h

\* The h of a code.
Hund(x) == (x + 1) \div 3

\* 1 - x.  Exact for x >= 0.5; for x < 0.5 the result is rounded to fl((100 - h)/100).
OneMinus(x) ==
    IF x >= Fl(50)
    THEN 3 * (100 - Hund(x)) + Dev[Hund(x) - 49]
    ELSE Fl(100 - Hund(x))

\* Every double the page can hold.
Doubles ==
    {Fl(c) : c \in 50..100} \cup {OneMinus(Fl(c)) : c \in 50..100} \cup {Fl(30)}

\* ------------------------------------------------------- PredictionForm

PredictionKeys == {"above_15pct", "above_10pct", "above_5pct", "above_0pct"}

\* Home: useState of predictions.
DefaultPredictions ==
    [above_15pct |-> Fl(30), above_10pct |-> Fl(40),
     above_5pct |-> Fl(60), above_0pct |-> Fl(75)]

\* PredictionRow: isYes.
isYes(value) == value >= Fl(50)

\* PredictionRow: confidence.
confidence(value) == IF isYes(value) THEN value ELSE OneMinus(value)

\* A plausible slip: No hands on 1 - value instead of 1 - confidence, which
\* flips a row that already says No.
handleDirectionChangeFromValue(value, newIsYes) ==
    IF newIsYes THEN confidence(value) ELSE OneMinus(value)

\* PredictionRow.handleDirectionChange: the value handed to onChange.
handleDirectionChange(value, newIsYes) ==
    IF newIsYes THEN confidence(value) ELSE OneMinus(confidence(value))

\* A plausible slip: the slider value is handed on as the probability whatever
\* the row's direction.
handleConfidenceChangeIgnoreDirection(value, newConfidence) == newConfidence

\* PredictionRow.handleConfidenceChange: the value handed to onChange.
handleConfidenceChange(value, newConfidence) ==
    IF isYes(value) THEN newConfidence ELSE OneMinus(newConfidence)

\* A plausible slip: the edited value is stored and no neighbour is repaired.
updatePredictionNoRepair(p, key, value) == [p EXCEPT ![key] = value]

\* A plausible slip: the edited field is clamped between its neighbours
\* instead of the neighbours being pushed.
updatePredictionClampEdited(p, key, value) ==
    IF key = "above_15pct" THEN [p EXCEPT !.above_15pct = Min(value, p.above_10pct)]
    ELSE IF key = "above_10pct"
    THEN [p EXCEPT !.above_10pct = Min(Max(value, p.above_15pct), p.above_5pct)]
    ELSE IF key = "above_5pct"
    THEN [p EXCEPT !.above_5pct = Min(Max(value, p.above_10pct), p.above_0pct)]
    ELSE [p EXCEPT !.above_0pct = Max(value, p.above_5pct)]

\* A plausible slip: the cascade reads the props instead of the values just
\* repaired, so only the threshold next to the edited one is moved.
updatePredictionStaleCascade(p, key, value) ==
    LET np == [p EXCEPT ![key] = value] IN
    IF key = "above_15pct" THEN
        LET a10 == Max(np.above_10pct, value)
            a5  == Max(np.above_5pct, p.above_10pct)
            a0  == Max(np.above_0pct, p.above_5pct)
        IN [np EXCEPT !.above_10pct = a10, !.above_5pct = a5, !.above_0pct = a0]
    ELSE IF key = "above_10pct" THEN
        LET a15 == Min(np.above_15pct, value)
            a5  == Max(np.above_5pct, value)
            a0  == Max(np.above_0pct, p.above_5pct)
        IN [np EXCEPT !.above_15pct = a15, !.above_5pct = a5, !.above_0pct = a0]
    ELSE IF key = "above_5pct" THEN
        LET a15 == Min(np.above_15pct, value)
            a10 == Min(Max(np.above_10pct, a15), value)
            a0  == Max(np.above_0pct, value)
        IN [np EXCEPT !.above_15pct = a15, !.above_10pct = a10, !.above_0pct = a0]
    ELSE IF key = "above_0pct" THEN
        LET a15 == Min(np.above_15pct, value)
            a10 == Min(np.above_10pct, value)
            a5  == Min(np.above_5pct, value)
        IN [np EXCEPT !.above_15pct = a15, !.above_10pct = a10, !.above_5pct = a5]
    ELSE np

\* A plausible slip: the threshold next to the edited one is set to the edited
\* value whether or not it was out of order.
updatePredictionSnapNeighbours(p, key, value) ==
    LET np == [p EXCEPT ![key] = value] IN
    IF key = "above_15pct" THEN
        LET a10 == value
            a5  == Max(np.above_5pct, a10)
            a0  == Max(np.above_0pct, a5)
        IN [np EXCEPT !.above_10pct = a10, !.above_5pct = a5, !.above_0pct = a0]
    ELSE IF key = "above_10pct" THEN
        LET a15 == Min(np.above_15pct, value)
            a5  == value
            a0  == Max(np.above_0pct, a5)
        IN [np EXCEPT !.above_15pct = a15, !.above_5pct = a5, !.above_0pct = a0]
    ELSE IF key = "above_5pct" THEN
        LET a15 == Min(np.above_15pct, value)
            a10 == value
            a0  == Max(np.above_0pct, value)
        IN [np EXCEPT !.above_15pct = a15, !.above_10pct = a10, !.above_0pct = a0]
    ELSE IF key = "above_0pct" THEN
        LET a15 == Min(np.above_15pct, value)
            a10 == Min(np.above_10pct, value)
            a5  == value
        IN [np EXCEPT !.above_15pct = a15, !.above_10pct = a10, !.above_5pct = a5]
    ELSE np

\* A plausible slip: in the above_5pct branch above_10pct is only lowered to the
\* edited value, without first being held at the repaired above_15pct.
updatePredictionPlainClamp(p, key, value) ==
    LET np == [p EXCEPT ![key] = value] IN
    IF key = "above_15pct" THEN
        LET a10 == Max(np.above_10pct, value)
            a5  == Max(np.above_5pct, a10)
            a0  == Max(np.above_0pct, a5)
        IN [np EXCEPT !.above_10pct = a10, !.above_5pct = a5, !.above_0pct = a0]
    ELSE IF key = "above_10pct" THEN
        LET a15 == Min(np.above_15pct, value)
            a5  == Max(np.above_5pct, value)
            a0  == Max(np.above_0pct, a5)
        IN [np EXCEPT !.above_15pct = a15, !.above_5pct = a5, !.above_0pct = a0]
    ELSE IF key = "above_5pct" THEN
        LET a15 == Min(np.above_15pct, value)
            a10 == Min(np.above_10pct, value)
            a0  == Max(np.above_0pct, value)
        IN [np EXCEPT !.above_15pct = a15, !.above_10pct = a10, !.above_0pct = a0]
    ELSE IF key = "above_0pct" THEN
        LET a15 == Min(np.above_15pct, value)
            a10 == Min(np.above_10pct, value)
            a5  == Min(np.above_5pct, value)
        IN [np EXCEPT !.above_15pct = a15, !.above_10pct = a10, !.above_5pct = a5]
    ELSE np

\* PredictionForm.updatePrediction: the vector handed to onChange.
updatePrediction(p, key, value) ==
    LET np == [p EXCEPT ![key] = value] IN
    IF key = "above_15pct" THEN
        LET a10 == Max(np.above_10pct, value)
            a5  == Max(np.above_5pct, a10)
            a0  == Max(np.above_0pct, a5)
        IN [np EXCEPT !.above_10pct = a10, !.above_5pct = a5, !.above_0pct = a0]
    ELSE IF key = "above_10pct" THEN
        LET a15 == Min(np.above_15pct, value)
            a5  == Max(np.above_5pct, value)
            a0  == Max(np.above_0pct, a5)
        IN [np EXCEPT !.above_15pct = a15, !.above_5pct = a5, !.above_0pct = a0]
    ELSE IF key = "above_5pct" THEN
        LET a15 == Min(np.above_15pct, value)
            a10 == Min(Max(np.above_10pct, a15), value)
            a0  == Max(np.above_0pct, value)
        IN [np EXCEPT !.above_15pct = a15, !.above_10pct = a10, !.above_0pct = a0]
    ELSE IF key = "above_0pct" THEN
        LET a15 == Min(np.above_15pct, value)
            a10 == Min(np.above_10pct, value)
            a5  == Min(np.above_5pct, value)
        IN [np EXCEPT !.above_15pct = a15, !.above_10pct = a10, !.above_5pct = a5]
    ELSE np

\* P(>15%) <= P(>10%) <= P(>5%) <= P(>0%).
Monotonic(p) ==
    /\ p.above_15pct <= p.above_10pct
    /\ p.above_10pct <= p.above_5pct
    /\ p.above_5pct <= p.above_0pct

\* ---------------------------------------------------- AllocationSliders

NonCashKeys == {"stocks", "bonds", "gold"}

\* Home: useState of allocation.
DefaultAllocation == [stocks |-> 60, bonds |-> 30, cash |-> 5, gold |-> 5]

\* AllocationSliders (slider variant): the objects of the preset buttons.
SliderPresets ==
    << [name |-> "60/40",      allocation |-> [stocks |-> 60,  bonds |-> 40,  cash |-> 0,   gold |-> 0]],
       [name |-> "All Stocks", allocation |-> [stocks |-> 100, bonds |-> 0,   cash |-> 0,   gold |-> 0]],
       [name |-> "All Bonds",  allocation |-> [stocks |-> 0,   bonds |-> 100, cash |-> 0,   gold |-> 0]],
       [name |-> "All Cash",   allocation |-> [stocks |-> 0,   bonds |-> 0,   cash |-> 100, gold |-> 0]],
       [name |-> "Equal",      allocation |-> [stocks |-> 25,  bonds |-> 25,  cash |-> 25,  gold |-> 25]] >>

\* AllocationSliders (preset variant): ALLOCATION_PRESETS.
ALLOCATION_PRESETS ==
    << [name |-> "60/40 Stocks/Bonds", allocation |-> [stocks |-> 60,  bonds |-> 40,  cash |-> 0,  gold |-> 0]],
       [name |-> "All Stocks",         allocation |-> [stocks |-> 100, bonds |-> 0,   cash |-> 0,  gold |-> 0]],
       [name |-> "All Bonds",          allocation |-> [stocks |-> 0,   bonds |-> 100, cash |-> 0,  gold |-> 0]],
       [name |-> "All Gold",           allocation |-> [stocks |-> 0,   bonds |-> 0,   cash |-> 0,  gold |-> 100]],
       [name |-> "Equal Split",        allocation |-> [stocks |-> 25,  bonds |-> 25,  cash |-> 25, gold |-> 25]] >>

\* SliderRow: the range input, min 0, max 100, step 1.
SliderRange == 0..100

\* AllocationSliders: total.
total(a) == a.stocks + a.bonds + a.cash + a.gold

\* AllocationSliders: isValid.
isValid(a) == total(a) = 100

\* A plausible slip: gold is left out of the remainder.
cashIsRemainderNoGold(a) == a.cash = (100 - a.stocks - a.bonds)

\* AllocationSliders: cashIsRemainder.
cashIsRemainder(a) == a.cash = (100 - a.stocks - a.bonds - a.gold)

\* AllocationSliders: what the total indicator shows: the total, the check mark,
\* and otherwise the signed delta total - 100.
totalIndicator(a) ==
    [total |-> total(a),
     ok    |-> isValid(a),
     plus  |-> (~isValid(a)) /\ total(a) > 100,
     delta |-> IF isValid(a) THEN 0 ELSE total(a) - 100]

\* updateAllocationWithCashAdjust: otherAssets.
otherAssets(a, key) ==
    IF key = "stocks" THEN a.bonds + a.gold
    ELSE IF key = "bonds" THEN a.stocks + a.gold
    ELSE a.stocks + a.bonds

\* A plausible slip: the edited field is capped at 100, not at 100 - otherAssets.
updateAllocationNoCap(a, key, value) ==
    LET cappedValue == Min(value, 100)
        newCash == 100 - cappedValue - otherAssets(a, key)
    IN [a EXCEPT ![key] = cappedValue, !.cash = Max(0, newCash)]

\* A plausible slip: neither the cap nor the floor is applied.
updateAllocationNaive(a, key, value) ==
    [a EXCEPT ![key] = value, !.cash = 100 - value - otherAssets(a, key)]

\* A plausible slip: cash gives up only what the edit added, so a total
\* that was off before the edit stays off.
updateAllocationDeltaCash(a, key, value) ==
    LET cappedValue == Min(value, 100 - otherAssets(a, key))
        newCash == a.cash - (cappedValue - a[key])
    IN [a EXCEPT ![key] = cappedValue, !.cash = Max(0, newCash)]

\* A plausible slip: a cash weight set by hand is kept, and the edited field
\* is capped by the room beside it.
updateAllocationKeepCash(a, key, value) ==
    LET maxValue == 100 - otherAssets(a, key) - a.cash
        cappedValue == Min(value, Max(maxValue, a[key]))
    IN [a EXCEPT ![key] = cappedValue]

\* AllocationSliders.updateAllocationWithCashAdjust: the vector handed to onChange.
updateAllocationWithCashAdjust(a, key, value) ==
    LET maxValue == 100 - otherAssets(a, key)
        cappedValue == Min(value, maxValue)
        newCash == 100 - cappedValue - otherAssets(a, key)
    IN [a EXCEPT ![key] = cappedValue, !.cash = Max(0, newCash)]

\* A plausible slip: the cash edit renormalises by taking the difference from stocks.
updateCashRenormalise(a, value) ==
    LET maxCash == 100 - (a.stocks + a.bonds + a.gold)
        c == Min(value, maxCash)
    IN [a EXCEPT !.cash = c, !.stocks = a.stocks + (maxCash - c)]

\* A plausible slip: Math.max where Math.min is meant, so cash never drops
\* below the remainder.
updateCashMax(a, value) ==
    LET other == a.stocks + a.bonds + a.gold
        maxCash == 100 - other
    IN [a EXCEPT !.cash = Max(value, maxCash)]

\* A plausible slip: the cash edit is stored as given, without the cap at the
\* remainder.
updateCashUncapped(a, value) == [a EXCEPT !.cash = value]

\* AllocationSliders.updateCash: the vector handed to onChange.
updateCash(a, value) ==
    LET other == a.stocks + a.bonds + a.gold
        maxCash == 100 - other
    IN [a EXCEPT !.cash = Min(value, maxCash)]

\* A plausible slip: the preset's cash weight is dropped on the way to onChange.
applyPresetDropCash(preset) == [preset EXCEPT !.cash = 0]

\* AllocationSliders.applyPreset, and the preset variant's onClick: the vector
\* handed to onChange.
applyPreset(preset) == preset

\* ----------------------------------------------------------------- Home

NoScenario == 0

ScenarioIds == 1..MaxScenario

\* error: null, or the message set (the allocation message quotes the total).
NoError == [kind |-> "null", total |-> 0]

LoadFailed == [kind |-> "Failed to load game data", total |-> 0]

RationaleTooLong == [kind |-> "Rationale must be 500 characters or less", total |-> 0]

AllocationSumError(t) == [kind |-> "Allocations must sum to 100%", total |-> t]

SubmitFailed == [kind |-> "Failed to submit predictions", total |-> 0]

\* No api.createGame is pending.
NoRequest == << >>

\* No handler has run yet.
NoOp == [op |-> "none", key |-> "", value |-> 0, via |-> ""]

Op(op, key, value, via) == [op |-> op, key |-> key, value |-> value, via |-> via]

\* Home renders the forms and the submit button: past the loading and the
\* no-scenario returns, and the page has not been left.
FormsRendered ==
    /\ gameState # "loading"
    /\ scenario # NoScenario
    /\ location = "/"

\* A plausible slip: the submit button is left enabled while submitting.
SubmitEnabledAlways == FormsRendered

\* Home renders the loading view: the spinner, and the error if one is set.
LoadingView == gameState = "loading"

\* Home renders 'No scenario data available.' with the Try Again button.
NoScenarioView == gameState # "loading" /\ scenario = NoScenario

\* The submit button: disabled={gameState === 'submitting'}.
SubmitEnabled == FormsRendered /\ gameState # "submitting"

\* The lengths the textarea can hold: 0 to maxLength + 50; the ones tried.
RationaleLengths ==
    {0, RationaleLimit, RationaleLimit + 1, RationaleMaxLength + RationaleOverflow}

\* Positions of a confidence slider (min 50, max 100) on a grid of n steps.
ConfidenceStops(n) == {50 + ((k * 50) \div n) : k \in 0..n}

\* Positions of an allocation slider (min 0, max 100, step 1) on a grid of n steps,
\* and the position 90 of the documented clamp example.
AllocationStops(n) == {(k * 100) \div n : k \in 0..n} \cup {90}

\* The doubles tried as the value of an edit: the slider positions of either
\* direction, the values 0.3, 0.4, 0.6 of the default vector, and 0.7 with its
\* complement 1 - 0.7.
ProbabilityValues(n) ==
    {Fl(c) : c \in ConfidenceStops(n)}
        \cup {OneMinus(Fl(c)) : c \in ConfidenceStops(n)}
        \cup {Fl(30), Fl(40), Fl(60), Fl(70), OneMinus(Fl(70))}

\* Home, first render: the useState initial values, and the effect has called
\* loadNewScenario, which is suspended at api.getRandomScenario().
Init ==
    /\ gameState = "loading"
    /\ scenario = NoScenario
    /\ error = NoError
    /\ predictions = DefaultPredictions
    /\ allocation = DefaultAllocation
    /\ rationale = 0
    /\ loadPc = "getRandomScenario"
    /\ inflight = NoRequest
    /\ location = "/"
    /\ lastOp = NoOp
    /\ prevPredictions = DefaultPredictions
    /\ prevAllocation = DefaultAllocation
    /\ edits = 0

\* The page once scenario 1 has loaded and before any edit.
InitPlaying ==
    /\ gameState = "playing"
    /\ scenario = 1
    /\ error = NoError
    /\ predictions = DefaultPredictions
    /\ allocation = DefaultAllocation
    /\ rationale = 0
    /\ loadPc = "done"
    /\ inflight = NoRequest
    /\ location = "/"
    /\ lastOp = NoOp
    /\ prevPredictions = DefaultPredictions
    /\ prevAllocation = DefaultAllocation
    /\ edits = 0

\* loadNewScenario: api.getRandomScenario() resolved; next await.
GetRandomScenarioResolved ==
    /\ loadPc = "getRandomScenario"
    /\ loadPc' = "getScenarioHistory"
    /\ lastOp' = Op("loadNewScenario", "getRandomScenario", 0, "")
    /\ UNCHANGED <<gameState, scenario, error, predictions, allocation, rationale,
                   inflight, location, prevPredictions, prevAllocation,
                   edits>>

\* loadNewScenario: api.getScenarioHistory() resolved.
GetScenarioHistoryResolved(id) ==
    /\ loadPc = "getScenarioHistory"
    /\ scenario' = id
    /\ gameState' = "playing"
    /\ loadPc' = "done"
    /\ lastOp' = Op("loadNewScenario", "getScenarioHistory", id, "")
    /\ UNCHANGED <<error, predictions, allocation, rationale, inflight, location,
                   prevPredictions, prevAllocation, edits>>

\* A plausible slip: the catch block leaves the loading state, as the view
\* with the Try Again button expects.
LoadRejectedToPlaying ==
    /\ loadPc \in {"getRandomScenario", "getScenarioHistory"}
    /\ error' = LoadFailed
    /\ gameState' = "playing"
    /\ loadPc' = "done"
    /\ lastOp' = Op("loadNewScenario", "catch", 0, "")
    /\ UNCHANGED <<scenario, predictions, allocation, rationale, inflight, location,
                   prevPredictions, prevAllocation, edits>>

\* loadNewScenario: either await rejected; the catch block.
LoadRejected ==
    /\ loadPc \in {"getRandomScenario", "getScenarioHistory"}
    /\ error' = LoadFailed
    /\ gameState' = "loading"
    /\ loadPc' = "done"
    /\ lastOp' = Op("loadNewScenario", "catch", 0, "")
    /\ UNCHANGED <<scenario, predictions, allocation, rationale, inflight, location,
                   prevPredictions, prevAllocation, edits>>

\* PredictionForm: updatePrediction(key, value), then onChange = setPredictions.
UpdatePrediction(key, value, via) ==
    /\ FormsRendered
    /\ predictions' = updatePrediction(predictions, key, value)
    /\ lastOp' = Op("updatePrediction", key, value, via)
    /\ prevPredictions' = predictions
    /\ edits' = Min(edits + 1, MaxEdits)
    /\ UNCHANGED <<gameState, scenario, error, allocation, rationale, loadPc,
                   inflight, location, prevAllocation>>

\* PredictionRow: a click on Yes or No.
DirectionChange(key, newIsYes) ==
    UpdatePrediction(key, handleDirectionChange(predictions[key], newIsYes),
                     IF newIsYes THEN "Yes" ELSE "No")

\* PredictionRow: the confidence slider moved to position c (50..100).
ConfidenceChange(key, c) ==
    UpdatePrediction(key, handleConfidenceChange(predictions[key], Fl(c)), "confidence")

\* AllocationSliders: the stocks, bonds or gold slider moved; onChange = setAllocation.
UpdateAllocationWithCashAdjust(key, value) ==
    /\ FormsRendered
    /\ allocation' = updateAllocationWithCashAdjust(allocation, key, value)
    /\ lastOp' = Op("updateAllocationWithCashAdjust", key, value, "")
    /\ prevAllocation' = allocation
    /\ edits' = Min(edits + 1, MaxEdits)
    /\ UNCHANGED <<gameState, scenario, error, predictions, rationale, loadPc,
                   inflight, location, prevPredictions>>

\* AllocationSliders: the cash slider moved.
UpdateCash(value) ==
    /\ FormsRendered
    /\ allocation' = updateCash(allocation, value)
    /\ lastOp' = Op("updateCash", "cash", value, "")
    /\ prevAllocation' = allocation
    /\ edits' = Min(edits + 1, MaxEdits)
    /\ UNCHANGED <<gameState, scenario, error, predictions, rationale, loadPc,
                   inflight, location, prevPredictions>>

\* AllocationSliders (slider variant): preset button i.
ApplyPreset(i) ==
    /\ FormsRendered
    /\ allocation' = applyPreset(SliderPresets[i].allocation)
    /\ lastOp' = Op("applyPreset", SliderPresets[i].name, i, "")
    /\ prevAllocation' = allocation
    /\ edits' = Min(edits + 1, MaxEdits)
    /\ UNCHANGED <<gameState, scenario, error, predictions, rationale, loadPc,
                   inflight, location, prevPredictions>>

\* AllocationSliders (preset variant): preset button i.
PresetOnClick(i) ==
    /\ FormsRendered
    /\ allocation' = applyPreset(ALLOCATION_PRESETS[i].allocation)
    /\ lastOp' = Op("presetOnClick", ALLOCATION_PRESETS[i].name, i, "")
    /\ prevAllocation' = allocation
    /\ edits' = Min(edits + 1, MaxEdits)
    /\ UNCHANGED <<gameState, scenario, error, predictions, rationale, loadPc,
                   inflight, location, prevPredictions>>

\* RationaleInput: the textarea changed; onChange = setRationale.
SetRationale(len) ==
    /\ FormsRendered
    /\ rationale' = len
    /\ lastOp' = Op("setRationale", "", len, "")
    /\ edits' = Min(edits + 1, MaxEdits)
    /\ UNCHANGED <<gameState, scenario, error, predictions, allocation, loadPc,
                   inflight, location, prevPredictions, prevAllocation>>

\* A plausible slip: the payload is built from the allocation of the render
\* before the last edit (a stale closure).
GameCreateInputStale ==
    [scenario_id |-> scenario, predictions |-> predictions,
     allocation |-> prevAllocation, rationale |-> rationale]

\* handleSubmit: the GameCreateInput built from the state.
GameCreateInput ==
    [scenario_id |-> scenario, predictions |-> predictions,
     allocation |-> allocation, rationale |-> rationale]

\* A plausible slip: the allocation check is skipped.
handleSubmitOutcomeNoSumCheck(sc, r, a) ==
    IF sc = NoScenario THEN "return"
    ELSE IF r > RationaleLimit THEN "rationale"
    ELSE "submit"

\* A plausible slip: the allocation check compares against the non-cash weights only.
handleSubmitOutcomeNonCashSum(sc, r, a) ==
    IF sc = NoScenario THEN "return"
    ELSE IF r > RationaleLimit THEN "rationale"
    ELSE IF a.stocks + a.bonds + a.gold # 100 THEN "allocation"
    ELSE "submit"

\* A plausible slip: the rationale length is left to the textarea and not
\* checked on submit.
handleSubmitOutcomeNoRationaleCheck(sc, r, a) ==
    IF sc = NoScenario THEN "return"
    ELSE IF a.stocks + a.bonds + a.cash + a.gold # 100 THEN "allocation"
    ELSE "submit"

\* handleSubmit: which way the validation goes.
handleSubmitOutcome(sc, r, a) ==
    IF sc = NoScenario THEN "return"
    ELSE IF r > RationaleLimit THEN "rationale"
    ELSE IF a.stocks + a.bonds + a.cash + a.gold # 100 THEN "allocation"
    ELSE "submit"

\* Home.handleSubmit, up to its await: a click on the submit button.
HandleSubmit ==
    /\ SubmitEnabled
    /\ LET outcome == handleSubmitOutcome(scenario, rationale, allocation) IN
       /\ error' =
            IF outcome = "rationale" THEN RationaleTooLong
            ELSE IF outcome = "allocation"
            THEN AllocationSumError(allocation.stocks + allocation.bonds
                                    + allocation.cash + allocation.gold)
            ELSE IF outcome = "submit" THEN NoError
            ELSE error
       /\ gameState' = IF outcome = "submit" THEN "submitting" ELSE gameState
       /\ inflight' = IF outcome = "submit" THEN Append(inflight, GameCreateInput)
                                          ELSE inflight
       /\ lastOp' = Op("handleSubmit", outcome, 0, "")
    /\ UNCHANGED <<scenario, predictions, allocation, rationale, loadPc, location,
                   prevPredictions, prevAllocation, edits>>

\* handleSubmit: api.createGame resolved; the redirect to the reveal page.
CreateGameResolved ==
    /\ inflight # NoRequest
    /\ location = "/"
    /\ location' = "/reveal"
    /\ inflight' = Tail(inflight)
    /\ lastOp' = Op("handleSubmit", "resolved", 0, "")
    /\ UNCHANGED <<gameState, scenario, error, predictions, allocation, rationale, loadPc,
                   prevPredictions, prevAllocation, edits>>

\* A plausible slip: the catch block sets the error but does not set gameState
\* back to 'playing'.
CreateGameRejectedStuck ==
    /\ inflight # NoRequest
    /\ location = "/"
    /\ error' = SubmitFailed
    /\ inflight' = Tail(inflight)
    /\ lastOp' = Op("handleSubmit", "catch", 0, "")
    /\ UNCHANGED <<gameState, scenario, predictions, allocation, rationale, loadPc,
                   location, prevPredictions, prevAllocation, edits>>

\* handleSubmit: api.createGame rejected; the catch block.
CreateGameRejected ==
    /\ inflight # NoRequest
    /\ location = "/"
    /\ error' = SubmitFailed
    /\ gameState' = "playing"
    /\ inflight' = Tail(inflight)
    /\ lastOp' = Op("handleSubmit", "catch", 0, "")
    /\ UNCHANGED <<scenario, predictions, allocation, rationale, loadPc, location,
                   prevPredictions, prevAllocation, edits>>

\* ---------------------------------------------------------- specifications

\* Slider positions tried on the whole page.
HomeConfidenceStops == {50, 70, 100}

HomeAllocationStops == {0, 50, 100}

\* The whole page, for visits of at most MaxEdits form edits.
Next ==
    \/ GetRandomScenarioResolved
    \/ \E id \in ScenarioIds : GetScenarioHistoryResolved(id)
    \/ LoadRejected
    \/ edits < MaxEdits /\ \E key \in PredictionKeys, yes \in BOOLEAN :
          DirectionChange(key, yes)
    \/ edits < MaxEdits /\ \E key \in PredictionKeys, c \in HomeConfidenceStops :
          ConfidenceChange(key, c)
    \/ edits < MaxEdits /\ \E key \in NonCashKeys, v \in HomeAllocationStops :
          UpdateAllocationWithCashAdjust(key, v)
    \/ edits < MaxEdits /\ \E v \in HomeAllocationStops : UpdateCash(v)
    \/ edits < MaxEdits /\ \E i \in 1..Len(SliderPresets) : ApplyPreset(i)
    \/ edits < MaxEdits /\ \E i \in 1..Len(ALLOCATION_PRESETS) : PresetOnClick(i)
    \/ edits < MaxEdits /\ \E len \in RationaleLengths : SetRationale(len)
    \/ HandleSubmit
    \/ CreateGameResolved
    \/ CreateGameRejected

Spec == Init /\ [][Next]_vars

\* The whole page, where a pending api.createGame settles: the promise of the
\* request is resolved or rejected once the response or the network error arrives.
SpecFair == Spec /\ WF_vars(CreateGameResolved \/ CreateGameRejected)

\* PredictionForm alone: any sequence of updatePrediction edits.
NextPred ==
    \E key \in PredictionKeys, v \in ProbabilityValues(ProbStops) :
        UpdatePrediction(key, v, "")

SpecPred == InitPlaying /\ [][NextPred]_vars

\* AllocationSliders alone: any sequence of slider edits and presets.
NextAlloc ==
    \/ \E key \in NonCashKeys, v \in AllocationStops(AllocStops) :
          UpdateAllocationWithCashAdjust(key, v)
    \/ \E v \in AllocationStops(AllocStops) : UpdateCash(v)
    \/ \E i \in 1..Len(SliderPresets) : ApplyPreset(i)
    \/ \E i \in 1..Len(ALLOCATION_PRESETS) : PresetOnClick(i)

SpecAlloc == InitPlaying /\ [][NextAlloc]_vars

\* The probabilities tried in the vectors PredictionForm may be handed.
AnyVectorValues == {Fl(c) : c \in ConfidenceStops(ProbStops)} \cup {Fl(30), Fl(70)}

\* PredictionForm handed any predictions prop, monotonic or not.
InitAnyVector ==
    /\ gameState = "playing"
    /\ scenario = 1
    /\ error = NoError
    /\ predictions \in [PredictionKeys -> AnyVectorValues]
    /\ allocation = DefaultAllocation
    /\ rationale = 0
    /\ loadPc = "done"
    /\ inflight = NoRequest
    /\ location = "/"
    /\ lastOp = NoOp
    /\ prevPredictions = predictions
    /\ prevAllocation = DefaultAllocation
    /\ edits = 0

\* updatePrediction as a function of its arguments: any edit of any vector.
NextPredAny ==
    \E key \in PredictionKeys, v \in AnyVectorValues :
        UpdatePrediction(key, v, "")

SpecPredAny == InitAnyVector /\ [][NextPredAny]_vars

\* ------------------------------------------------------------------ claims

NonCashSum(a) == a.stocks + a.bonds + a.gold

WeightSum == allocation.stocks + allocation.bonds + allocation.gold + allocation.cash

\* C1: from the default vector, after any sequence of updatePrediction edits
\* (any field, any value), above_15pct <= above_10pct <= above_5pct <= above_0pct;
\* and one more edit of any field to any double of the page keeps it so.
C1_Monotonicity ==
    /\ predictions.above_15pct <= predictions.above_10pct
    /\ predictions.above_10pct <= predictions.above_5pct
    /\ predictions.above_5pct <= predictions.above_0pct
    /\ \A key \in PredictionKeys, v \in Doubles :
          LET q == updatePrediction(predictions, key, v) IN
          /\ q.above_15pct <= q.above_10pct
          /\ q.above_10pct <= q.above_5pct
          /\ q.above_5pct <= q.above_0pct

\* C1 witness: above_10pct was edited to 0.7 on the default vector and
\* above_5pct was raised to meet it.
C1_Witness ==
    /\ lastOp = Op("updatePrediction", "above_10pct", Fl(70), "")
    /\ prevPredictions = DefaultPredictions
    /\ predictions = [above_15pct |-> Fl(30), above_10pct |-> Fl(70),
                      above_5pct |-> Fl(70), above_0pct |-> Fl(75)]

\* C2: in every reachable allocation state, also one whose total is below 100
\* after a cash edit, editing stocks, bonds or gold to any v in 0..100 gives a
\* vector whose four weights sum to exactly 100.
C2_SumAfterNonCashEdit ==
    /\ lastOp.op = "updateAllocationWithCashAdjust"
          => allocation.stocks + allocation.bonds + allocation.gold + allocation.cash = 100
    /\ \A key \in NonCashKeys, v \in SliderRange :
          LET b == updateAllocationWithCashAdjust(allocation, key, v) IN
          b.stocks + b.bonds + b.gold + b.cash = 100

\* C2 witness: a non-cash edit found the total below 100 and left it at 100.
C2_Witness ==
    /\ lastOp.op = "updateAllocationWithCashAdjust"
    /\ prevAllocation.stocks + prevAllocation.bonds + prevAllocation.gold
          + prevAllocation.cash < 100
    /\ allocation.stocks + allocation.bonds + allocation.gold + allocation.cash = 100

\* C3: when handleSubmit runs while the four weights do not sum to 100, no
\* createGame request is issued, gameState stays 'playing', an error is set,
\* and predictions, allocation and rationale are unchanged.
C3_SubmitBlocked ==
    [][ (HandleSubmit
          /\ allocation.stocks + allocation.bonds + allocation.cash + allocation.gold # 100)
        => /\ inflight' = NoRequest
           /\ gameState' = "playing"
           /\ error' # NoError
           /\ predictions' = predictions
           /\ allocation' = allocation
           /\ rationale' = rationale ]_vars

\* C3 witness: handleSubmit has just refused an allocation that sums to 95.
C3_Witness ==
    /\ lastOp = Op("handleSubmit", "allocation", 0, "")
    /\ allocation = [stocks |-> 60, bonds |-> 30, cash |-> 0, gold |-> 5]
    /\ gameState = "playing"
    /\ inflight = NoRequest
    /\ error = AllocationSumError(95)

\* C4: every payload passed to api.createGame carries an allocation whose
\* weights sum to exactly 100, and is the scenario, predictions, allocation and
\* rationale held when the submit was accepted.
C4_Payload ==
    /\ inflight # NoRequest =>
          /\ Len(inflight) = 1
          /\ inflight[1].allocation.stocks + inflight[1].allocation.bonds
                + inflight[1].allocation.cash + inflight[1].allocation.gold = 100
    /\ (lastOp.op = "handleSubmit" /\ lastOp.key = "submit") =>
          /\ inflight # NoRequest
          /\ inflight[1].scenario_id = scenario
          /\ inflight[1].predictions = predictions
          /\ inflight[1].allocation = allocation
          /\ inflight[1].rationale = rationale

\* C4 witness: a submit was accepted with edited predictions and an edited
\* allocation in the payload.
C4_Witness ==
    /\ lastOp = Op("handleSubmit", "submit", 0, "")
    /\ gameState = "submitting"
    /\ inflight # NoRequest
    /\ inflight[1].predictions # DefaultPredictions
    /\ inflight[1].allocation # DefaultAllocation
    /\ prevAllocation # allocation

\* C5: after updatePrediction(key, v) the edited field equals exactly v, for
\* every field and every double of the page.
C5_EditedFieldKept ==
    /\ lastOp.op = "updatePrediction" => predictions[lastOp.key] = lastOp.value
    /\ \A key \in PredictionKeys, v \in Doubles :
          updatePrediction(predictions, key, v)[key] = v

\* C5 witness: above_5pct was edited to a value below both tighter thresholds,
\* which were lowered to it while the edited field kept the value.
C5_Witness ==
    /\ lastOp.op = "updatePrediction"
    /\ lastOp.key = "above_5pct"
    /\ lastOp.value < prevPredictions.above_15pct
    /\ predictions.above_5pct = lastOp.value
    /\ predictions.above_10pct = lastOp.value
    /\ predictions.above_15pct = lastOp.value

\* C6: from the default allocation, after any sequence of slider edits with
\* values in 0..100 and of presets, each of stocks, bonds, gold and cash lies
\* in 0..100.
C6_FieldsInRange ==
    /\ allocation.stocks \in 0..100
    /\ allocation.bonds \in 0..100
    /\ allocation.gold \in 0..100
    /\ allocation.cash \in 0..100

\* C6 witness: a slider was pushed to 100 and stopped at the room the two
\* other non-cash weights leave, with cash at 0.
C6_Witness ==
    /\ lastOp.op = "updateAllocationWithCashAdjust"
    /\ lastOp.value = 100
    /\ allocation[lastOp.key] < 100
    /\ allocation[lastOp.key] > prevAllocation[lastOp.key]
    /\ allocation.cash = 0

\* C7: a cash edit to v sets cash to min(v, 100 - (stocks + bonds + gold)) and
\* leaves stocks, bonds and gold as they were; nothing is renormalised.
C7_CashEdit ==
    LET CashEditOf(a, v, b) ==
            /\ b.cash = (IF v <= 100 - (a.stocks + a.bonds + a.gold)
                         THEN v ELSE 100 - (a.stocks + a.bonds + a.gold))
            /\ b.stocks = a.stocks
            /\ b.bonds = a.bonds
            /\ b.gold = a.gold
    IN lastOp.op = "updateCash" => CashEditOf(prevAllocation, lastOp.value, allocation)

\* C7 witness: a cash edit below the remainder left the total below 100.
C7_Witness ==
    /\ lastOp.op = "updateCash"
    /\ lastOp.value < 100 - NonCashSum(prevAllocation)
    /\ allocation.cash = lastOp.value
    /\ total(prevAllocation) = 100
    /\ total(allocation) < 100

\* C8: editing a non-cash field k to v, with others the sum of the two other
\* non-cash fields, gives k = min(v, 100 - others), cash = 100 - k - others
\* whatever cash was, and the two other non-cash fields unchanged; stocks
\* edited to 90 with bonds 50, gold 0, cash 50 gives stocks 50, cash 0.
C8_NonCashEdit ==
    LET Others(a, k) == NonCashSum(a) - a[k]
        EditOf(a, k, v, b) ==
            /\ b[k] = (IF v <= 100 - Others(a, k) THEN v ELSE 100 - Others(a, k))
            /\ b.cash = 100 - b[k] - Others(a, k)
            /\ k = "stocks" \/ b.stocks = a.stocks
            /\ k = "bonds" \/ b.bonds = a.bonds
            /\ k = "gold" \/ b.gold = a.gold
    IN /\ lastOp.op = "updateAllocationWithCashAdjust"
             => EditOf(prevAllocation, lastOp.key, lastOp.value, allocation)
       /\ updateAllocationWithCashAdjust(
              [stocks |-> 0, bonds |-> 50, cash |-> 50, gold |-> 0], "stocks", 90)
          = [stocks |-> 50, bonds |-> 50, cash |-> 0, gold |-> 0]

\* C8 witness: the documented example has happened.
C8_Witness ==
    /\ lastOp = Op("updateAllocationWithCashAdjust", "stocks", 90, "")
    /\ prevAllocation = [stocks |-> 0, bonds |-> 50, cash |-> 50, gold |-> 0]
    /\ allocation = [stocks |-> 50, bonds |-> 50, cash |-> 0, gold |-> 0]

\* C9: a preset replaces all four allocation fields with exactly the preset's
\* values, whatever the allocation was before.
C9_PresetVerbatim ==
    /\ lastOp.op = "applyPreset" =>
          /\ allocation.stocks = SliderPresets[lastOp.value].allocation.stocks
          /\ allocation.bonds = SliderPresets[lastOp.value].allocation.bonds
          /\ allocation.gold = SliderPresets[lastOp.value].allocation.gold
          /\ allocation.cash = SliderPresets[lastOp.value].allocation.cash
    /\ lastOp.op = "presetOnClick" =>
          /\ allocation.stocks = ALLOCATION_PRESETS[lastOp.value].allocation.stocks
          /\ allocation.bonds = ALLOCATION_PRESETS[lastOp.value].allocation.bonds
          /\ allocation.gold = ALLOCATION_PRESETS[lastOp.value].allocation.gold
          /\ allocation.cash = ALLOCATION_PRESETS[lastOp.value].allocation.cash
    /\ lastOp.op \in {"applyPreset", "presetOnClick"} /\ lastOp.value = 5
          => allocation = [stocks |-> 25, bonds |-> 25, cash |-> 25, gold |-> 25]

\* C9 witness: the equal-split preset was applied to an under-allocated
\* vector that shared no weight with it.
C9_Witness ==
    /\ lastOp.op \in {"applyPreset", "presetOnClick"}
    /\ lastOp.value = 5
    /\ total(prevAllocation) < 100
    /\ \A k \in {"stocks", "bonds", "gold", "cash"} : prevAllocation[k] # 25
    /\ allocation = [stocks |-> 25, bonds |-> 25, cash |-> 25, gold |-> 25]

\* C10: the validity check is valid exactly when stocks + bonds + gold + cash
\* = 100, the total indicator otherwise names the delta total - 100, handleSubmit
\* accepts on the same condition, and neither changes the allocation.
C10_ValidityCheck ==
    /\ [](/\ isValid(allocation) <=> (WeightSum = 100)
          /\ totalIndicator(allocation).ok <=> (WeightSum = 100)
          /\ WeightSum # 100 => totalIndicator(allocation).delta = WeightSum - 100
          /\ totalIndicator(allocation).plus <=> (WeightSum > 100))
    /\ [][ HandleSubmit =>
             /\ allocation' = allocation
             /\ rationale <= 500 => ((inflight' # NoRequest) <=> (WeightSum = 100))
             /\ (rationale <= 500 /\ WeightSum # 100)
                   => error' = AllocationSumError(WeightSum) ]_vars

\* C10 witness: handleSubmit has refused an under-allocated vector, which the
\* indicator shows with a negative delta, and the vector is as the last edit left it.
C10_Witness ==
    /\ lastOp = Op("handleSubmit", "allocation", 0, "")
    /\ ~isValid(allocation)
    /\ totalIndicator(allocation).delta = total(allocation) - 100
    /\ totalIndicator(allocation).delta < 0
    /\ error = AllocationSumError(total(allocation))
    /\ allocation # DefaultAllocation

\* Position of a threshold in the ordering: 1 is the tightest (above_15pct),
\* 4 the loosest (above_0pct).
ThresholdRank(k) ==
    IF k = "above_15pct" THEN 1
    ELSE IF k = "above_10pct" THEN 2
    ELSE IF k = "above_5pct" THEN 3
    ELSE 4

\* C11: updatePrediction is idempotent: in every state an edit (field, v) has
\* produced, applying the same edit (field, v) again gives the same vector.
C11_Idempotent ==
    lastOp.op = "updatePrediction"
        => updatePrediction(predictions, lastOp.key, lastOp.value) = predictions

\* C11 witness: above_15pct was edited to 1.0 twice in a row from the default
\* vector; the first edit raised all three looser thresholds, the second found
\* that vector and left it as it was.
C11_Witness ==
    /\ lastOp = Op("updatePrediction", "above_15pct", Fl(100), "")
    /\ prevPredictions = updatePrediction(DefaultPredictions, "above_15pct", Fl(100))
    /\ prevPredictions # DefaultPredictions
    /\ predictions = prevPredictions

\* C12: minimal disturbance: after an edit of a field to v on a monotonic
\* vector, every other field is unchanged or equals v, and it has changed only
\* if it was a tighter threshold above v or a looser threshold below v.
C12_MinimalDisturbance ==
    (lastOp.op = "updatePrediction" /\ Monotonic(prevPredictions)) =>
        \A k \in PredictionKeys \ {lastOp.key} :
            /\ predictions[k] = prevPredictions[k] \/ predictions[k] = lastOp.value
            /\ predictions[k] # prevPredictions[k] =>
                  \/ /\ ThresholdRank(k) < ThresholdRank(lastOp.key)
                     /\ prevPredictions[k] > lastOp.value
                  \/ /\ ThresholdRank(k) > ThresholdRank(lastOp.key)
                     /\ prevPredictions[k] < lastOp.value

\* C12 witness: above_10pct was edited to a value between its neighbours on a
\* vector whose thresholds differ, and no other field moved.
C12_Witness ==
    /\ lastOp.op = "updatePrediction"
    /\ lastOp.key = "above_10pct"
    /\ Monotonic(prevPredictions)
    /\ prevPredictions.above_15pct < lastOp.value
    /\ lastOp.value < prevPredictions.above_5pct
    /\ lastOp.value # prevPredictions.above_10pct
    /\ predictions = [prevPredictions EXCEPT !.above_10pct = lastOp.value]

\* C13: from the default vector {0.3, 0.4, 0.6, 0.75}, editing above_10pct to
\* 0.5 gives {0.3, 0.5, 0.6, 0.75}; editing above_10pct to 0.7, from the default
\* vector or from that result, gives {0.3, 0.7, 0.7, 0.75}.
C13_Above10Example ==
    /\ (/\ lastOp = Op("updatePrediction", "above_10pct", Fl(50), "")
        /\ prevPredictions = DefaultPredictions)
          => predictions = [above_15pct |-> Fl(30), above_10pct |-> Fl(50),
                            above_5pct |-> Fl(60), above_0pct |-> Fl(75)]
    /\ (/\ lastOp = Op("updatePrediction", "above_10pct", Fl(70), "")
        /\ \/ prevPredictions = DefaultPredictions
           \/ prevPredictions = [above_15pct |-> Fl(30), above_10pct |-> Fl(50),
                                 above_5pct |-> Fl(60), above_0pct |-> Fl(75)])
          => predictions = [above_15pct |-> Fl(30), above_10pct |-> Fl(70),
                            above_5pct |-> Fl(70), above_0pct |-> Fl(75)]

\* C13 witness: above_10pct was edited to 0.7 on the result of editing it to 0.5.
C13_Witness ==
    /\ lastOp = Op("updatePrediction", "above_10pct", Fl(70), "")
    /\ prevPredictions = [above_15pct |-> Fl(30), above_10pct |-> Fl(50),
                          above_5pct |-> Fl(60), above_0pct |-> Fl(75)]
    /\ predictions = [above_15pct |-> Fl(30), above_10pct |-> Fl(70),
                      above_5pct |-> Fl(70), above_0pct |-> Fl(75)]

\* C14: from the default allocation {stocks 60, bonds 30, gold 5, cash 5}, a
\* cash edit to 0 gives {stocks 60, bonds 30, gold 5, cash 0}, total 95, which
\* the validity check reports as invalid with delta -5.
C14_CashOverrideExample ==
    (lastOp = Op("updateCash", "cash", 0, "") /\ prevAllocation = DefaultAllocation) =>
        /\ allocation = [stocks |-> 60, bonds |-> 30, gold |-> 5, cash |-> 0]
        /\ total(allocation) = 95
        /\ ~isValid(allocation)
        /\ ~totalIndicator(allocation).ok
        /\ ~totalIndicator(allocation).plus
        /\ totalIndicator(allocation).delta = -5

\* C14 witness: the cash slider was moved to 0 on the default allocation.
C14_Witness ==
    /\ lastOp = Op("updateCash", "cash", 0, "")
    /\ prevAllocation = DefaultAllocation
    /\ allocation.cash = 0
    /\ totalIndicator(allocation).total = 95

\* C15: once a submission has been accepted (gameState = 'submitting'), no
\* step changes the predictions or the allocation.
C15_FrozenWhileSubmitting ==
    [][ gameState = "submitting"
          => (predictions' = predictions /\ allocation' = allocation) ]_vars

\* The reference rule for an edit of field key to v: the edited field is v,
\* every tighter threshold becomes min(old, v), every looser one max(old, v).
ReferenceRule(p, key, v) ==
    [k \in PredictionKeys |->
        IF k = key THEN v
        ELSE IF ThresholdRank(k) < ThresholdRank(key) THEN Min(p[k], v)
        ELSE Max(p[k], v)]

\* C16: on every monotonic vector, an edit of above_15pct, above_10pct or
\* above_0pct gives what the reference rule gives; so a looser threshold that
\* was already >= v and a tighter one that was already <= v keep their values.
C16_BranchesMatchReference ==
    (/\ lastOp.op = "updatePrediction"
     /\ lastOp.key \in {"above_15pct", "above_10pct", "above_0pct"}
     /\ Monotonic(prevPredictions)) =>
        /\ predictions = ReferenceRule(prevPredictions, lastOp.key, lastOp.value)
        /\ \A k \in PredictionKeys \ {lastOp.key} :
              /\ (ThresholdRank(k) > ThresholdRank(lastOp.key)
                    /\ prevPredictions[k] >= lastOp.value)
                    => predictions[k] = prevPredictions[k]
              /\ (ThresholdRank(k) < ThresholdRank(lastOp.key)
                    /\ prevPredictions[k] <= lastOp.value)
                    => predictions[k] = prevPredictions[k]

\* C16 witness: above_15pct was edited to a value above the two next thresholds
\* and below the loosest one: two thresholds were raised to it, one was kept.
C16_Witness ==
    /\ lastOp.op = "updatePrediction"
    /\ lastOp.key = "above_15pct"
    /\ Monotonic(prevPredictions)
    /\ prevPredictions.above_5pct < lastOp.value
    /\ lastOp.value < prevPredictions.above_0pct
    /\ predictions.above_10pct = lastOp.value
    /\ predictions.above_5pct = lastOp.value
    /\ predictions.above_0pct = prevPredictions.above_0pct

\* C17: an edit of above_5pct to v gives above_15pct' = min(above_15pct, v),
\* above_15pct' <= above_10pct' <= v and above_0pct' = max(above_0pct, v), on
\* the vectors the form reaches and on any vector of the values tried; from a
\* monotonic vector above_10pct is not raised.
C17_Above5Edit ==
    /\ (lastOp.op = "updatePrediction" /\ lastOp.key = "above_5pct") =>
          /\ predictions.above_15pct = Min(prevPredictions.above_15pct, lastOp.value)
          /\ predictions.above_15pct <= predictions.above_10pct
          /\ predictions.above_10pct <= lastOp.value
          /\ predictions.above_0pct = Max(prevPredictions.above_0pct, lastOp.value)
          /\ Monotonic(prevPredictions)
                => predictions.above_10pct <= prevPredictions.above_10pct
    /\ lastOp = NoOp =>
          \A p \in [PredictionKeys -> ProbabilityValues(ProbStops)],
             v \in ProbabilityValues(ProbStops) :
              LET q == updatePrediction(p, "above_5pct", v) IN
              /\ q.above_15pct = Min(p.above_15pct, v)
              /\ q.above_15pct <= q.above_10pct
              /\ q.above_10pct <= v
              /\ q.above_10pct = Min(Max(p.above_10pct, q.above_15pct), v)
              /\ q.above_0pct = Max(p.above_0pct, v)
              /\ Monotonic(p) => q.above_10pct <= p.above_10pct

\* C17 witness: above_5pct was edited to a value between above_15pct and
\* above_10pct: above_15pct was kept, above_10pct was lowered to the value.
C17_Witness ==
    /\ lastOp.op = "updatePrediction"
    /\ lastOp.key = "above_5pct"
    /\ prevPredictions.above_15pct < lastOp.value
    /\ lastOp.value < prevPredictions.above_10pct
    /\ predictions.above_15pct = prevPredictions.above_15pct
    /\ predictions.above_10pct = lastOp.value
    /\ predictions.above_5pct = lastOp.value

\* C18: cash remainder mode: the total differs from 100 only if the last
\* allocation operation was a direct cash edit; after an edit of stocks, bonds
\* or gold, and after a preset, cash is the remainder 100 - (stocks + bonds + gold).
C18_CashRemainderMode ==
    /\ total(allocation) # 100 => lastOp.op = "updateCash"
    /\ lastOp.op \in {"updateAllocationWithCashAdjust", "applyPreset", "presetOnClick"}
          => /\ allocation.cash = 100 - NonCashSum(allocation)
             /\ cashIsRemainder(allocation)

\* C18 witness: cash had been set by hand below the remainder, and the All
\* Cash preset ended the override.
C18_Witness ==
    /\ lastOp.op = "applyPreset"
    /\ SliderPresets[lastOp.value].name = "All Cash"
    /\ total(prevAllocation) < 100
    /\ ~cashIsRemainder(prevAllocation)
    /\ cashIsRemainder(allocation)
    /\ allocation.cash = 100

\* C19: every stored probability p decomposes to direction Yes iff p >= 0.5
\* and a confidence in [0.5, 1], and recomposing (confidence if Yes,
\* 1 - confidence if No) gives back exactly p.
C19_DecomposeRecompose ==
    \A key \in PredictionKeys :
        LET p == predictions[key] IN
        /\ isYes(p) <=> p >= Fl(50)
        /\ Fl(50) <= confidence(p)
        /\ confidence(p) <= Fl(100)
        /\ (IF isYes(p) THEN confidence(p) ELSE OneMinus(confidence(p))) = p

C22_PresetsValid ==
    lastOp.op \in {"applyPreset", "presetOnClick"} =>
        /\ \A k \in DOMAIN allocation : allocation[k] \in 0..100
        /\ allocation.stocks + allocation.bonds + allocation.gold + allocation.cash = 100
        /\ isValid(allocation)
        /\ handleSubmitOutcome(scenario, rationale, allocation) = "submit"

\* C22 witness: the All Gold preset replaced an allocation that did not pass
\* the check.
C22_Witness ==
    /\ lastOp.op = "presetOnClick"
    /\ ALLOCATION_PRESETS[lastOp.value].name = "All Gold"
    /\ ~isValid(prevAllocation)
    /\ allocation.gold = 100
    /\ handleSubmitOutcome(scenario, rationale, allocation) = "submit"

\* C23: in every reachable allocation state stocks + bonds + gold <= 100 and
\* the total is <= 100, so the indicator never shows '+', and in every edit of
\* stocks, bonds or gold the value 100 - cappedValue - otherAssets is already
\* >= 0 and is what cash becomes.
C23_NeverOverAllocated ==
    /\ allocation.stocks + allocation.bonds + allocation.gold <= 100
    /\ allocation.stocks + allocation.bonds + allocation.gold + allocation.cash <= 100
    /\ ~totalIndicator(allocation).plus
    /\ totalIndicator(allocation).delta <= 0
    /\ lastOp.op = "updateAllocationWithCashAdjust" =>
          /\ 100 - allocation[lastOp.key] - otherAssets(prevAllocation, lastOp.key) >= 0
          /\ allocation.cash
                = 100 - allocation[lastOp.key] - otherAssets(prevAllocation, lastOp.key)

\* C23 witness: the cash slider was pushed to 100 on an under-allocated vector
\* and stopped at the remainder.
C23_Witness ==
    /\ lastOp = Op("updateCash", "cash", 100, "")
    /\ total(prevAllocation) < 100
    /\ allocation.cash < 100
    /\ allocation.cash > prevAllocation.cash
    /\ total(allocation) = 100

\* C24: a cash edit never leaves cash above 100 - (stocks + bonds + gold); on
\* a vector whose total is 100 a cash edit to a value >= the current cash
\* changes nothing; and from a total of 100 cash goes up only in a step that
\* lowers stocks + bonds + gold.
C24_CashNeverAboveRemainder ==
    /\ lastOp.op = "updateCash" =>
          /\ allocation.cash <= 100 - NonCashSum(allocation)
          /\ (total(prevAllocation) = 100 /\ lastOp.value >= prevAllocation.cash)
                => allocation = prevAllocation
    /\ (/\ lastOp.op \in {"updateCash", "updateAllocationWithCashAdjust",
                          "applyPreset", "presetOnClick"}
        /\ total(prevAllocation) = 100
        /\ allocation.cash > prevAllocation.cash)
          => NonCashSum(allocation) < NonCashSum(prevAllocation)

\* C24 witness: on a vector with total 100 and stocks above 0 the cash slider
\* was pushed above the current cash, and the vector is as it was.
C24_Witness ==
    /\ lastOp.op = "updateCash"
    /\ total(prevAllocation) = 100
    /\ prevAllocation.stocks > 0
    /\ lastOp.value > prevAllocation.cash
    /\ allocation = prevAllocation

\* C25: an edit of above_15pct, above_10pct or above_5pct gives a monotonic
\* vector from every starting vector, monotonic or not.
C25_MonotonicFromAnyStart ==
    (/\ lastOp.op = "updatePrediction"
     /\ lastOp.key \in {"above_15pct", "above_10pct", "above_5pct"}) =>
        /\ predictions.above_15pct <= predictions.above_10pct
        /\ predictions.above_10pct <= predictions.above_5pct
        /\ predictions.above_5pct <= predictions.above_0pct

\* C25 witness: above_5pct was edited on a vector whose above_10pct was below
\* its above_15pct; above_10pct was raised to the repaired above_15pct and the
\* result is monotonic.
C25_Witness ==
    /\ lastOp.op = "updatePrediction"
    /\ lastOp.key = "above_5pct"
    /\ prevPredictions.above_10pct < prevPredictions.above_15pct
    /\ predictions.above_10pct > prevPredictions.above_10pct
    /\ predictions.above_10pct = predictions.above_15pct
    /\ Monotonic(predictions)

\* C26: the cash row's remainder flag is true in exactly the states whose
\* total is 100, as isValid is; it is true also right after a cash edit that
\* landed on the remainder, since it does not look at the last operation.
C26_RemainderFlagIsValidity ==
    /\ cashIsRemainder(allocation) <=> (WeightSum = 100)
    /\ cashIsRemainder(allocation) <=> isValid(allocation)
    /\ (lastOp.op = "updateCash" /\ allocation.cash = 100 - NonCashSum(allocation))
          => cashIsRemainder(allocation)
    /\ (lastOp.op = "updateCash" /\ allocation.cash < 100 - NonCashSum(allocation))
          => ~cashIsRemainder(allocation)

\* C26 witness: cash was set by hand on an under-allocated vector to a value
\* at or above the remainder, and the row is flagged as remainder.
C26_Witness ==
    /\ lastOp.op = "updateCash"
    /\ total(prevAllocation) < 100
    /\ ~cashIsRemainder(prevAllocation)
    /\ allocation.cash > prevAllocation.cash
    /\ cashIsRemainder(allocation)

\* C27: at most one createGame is pending; while one is pending gameState is
\* 'submitting' and the submit button is disabled, so handleSubmit cannot run.
C27_SingleSubmission ==
    /\ Len(inflight) <= 1
    /\ inflight # NoRequest =>
          /\ gameState = "submitting"
          /\ ~SubmitEnabled
          /\ ~ENABLED HandleSubmit

\* C27 witness: a createGame is pending, the page is still shown and a form
\* was edited since the submit was accepted.
C27_Witness ==
    /\ Len(inflight) = 1
    /\ gameState = "submitting"
    /\ location = "/"
    /\ lastOp.op \in {"updatePrediction", "updateCash", "applyPreset", "setRationale"}
    /\ ~SubmitEnabled

\* C28: every accepted submission ends: from gameState 'submitting' on the
\* page, either the redirect to the reveal page follows, or gameState is back
\* at 'playing' with the error set; the failure leaves predictions, allocation
\* and rationale as they were and the submit button is enabled again.
C28_SubmissionEnds ==
    /\ (gameState = "submitting" /\ location = "/")
          ~> (location = "/reveal" \/ (gameState = "playing" /\ error = SubmitFailed))
    /\ [][ (gameState = "submitting" /\ gameState' # "submitting") =>
              /\ gameState' = "playing"
              /\ error' = SubmitFailed
              /\ inflight' = NoRequest
              /\ predictions' = predictions
              /\ allocation' = allocation
              /\ rationale' = rationale
              /\ SubmitEnabled' ]_vars
    /\ [][ (inflight # NoRequest /\ inflight' = NoRequest) =>
              \/ location' = "/reveal"
              \/ gameState' = "playing" /\ error' = SubmitFailed ]_vars

\* C28 witness: a submission was rejected; the page is back at 'playing' with
\* the error set and edited forms, and the submit button is enabled.
C28_Witness ==
    /\ lastOp = Op("handleSubmit", "catch", 0, "")
    /\ gameState = "playing"
    /\ error = SubmitFailed
    /\ inflight = NoRequest
    /\ predictions # DefaultPredictions
    /\ SubmitEnabled

\* C29: gameState is 'playing' or 'submitting' only with a scenario loaded;
\* after a failed load gameState is 'loading' with the error set, the loading
\* view is shown and no step is possible from there; the view with the Try
\* Again button is never rendered.
C29_LoadFailureIsFinal ==
    /\ gameState \in {"playing", "submitting"} => scenario # NoScenario
    /\ ~NoScenarioView
    /\ lastOp = Op("loadNewScenario", "catch", 0, "") =>
          /\ gameState = "loading"
          /\ error = LoadFailed
          /\ scenario = NoScenario
          /\ LoadingView
          /\ ~FormsRendered
          /\ ~ENABLED Next
    /\ error = LoadFailed => lastOp = Op("loadNewScenario", "catch", 0, "")

\* C29 witness: a request of loadNewScenario failed; the page shows the
\* loading view with the error and no scenario.
C29_Witness ==
    /\ lastOp = Op("loadNewScenario", "catch", 0, "")
    /\ loadPc = "done"
    /\ gameState = "loading"
    /\ error = LoadFailed
    /\ scenario = NoScenario

\* C30: when handleSubmit runs with a rationale longer than 500 characters, no
\* createGame request is issued, gameState stays 'playing' and an error is
\* set, whether or not the allocation sums to 100.
C30_LongRationaleBlocked ==
    [][ (HandleSubmit /\ rationale > 500) =>
           /\ inflight' = NoRequest
           /\ gameState = "playing"
           /\ gameState' = "playing"
           /\ error' # NoError
           /\ error' = RationaleTooLong ]_vars

\* C30 witness: handleSubmit has refused a rationale of more than 500
\* characters while the allocation summed to 100.
C30_Witness ==
    /\ lastOp = Op("handleSubmit", "rationale", 0, "")
    /\ rationale > 500
    /\ rationale <= 550
    /\ isValid(allocation)
    /\ gameState = "playing"
    /\ inflight = NoRequest
    /\ error = RationaleTooLong

====
